---- MODULE Spec2Model ----
(***************************************************************************)
(* The synchronized application context of the Arrow client                *)
(* (src/src/context.rs): ConnectionState and its textual form, the         *)
(* ApplicationContextData bundle with its connection-state file, and the   *)
(* ApplicationContext handle, an Arc<Mutex<ApplicationContextData>> that   *)
(* worker threads share through clones.                                    *)
(***************************************************************************)
EXTENDS Integers, Sequences, FiniteSets, TLC

\* ------------------------------------------------------------------ bounds
NumWorkers == 2
MaxCalls == 2
MaxServices == 2

Workers == 1..NumWorkers
\* One heap cell (the Arc's allocation) per handle that could ever need one.
Cells == Workers
\* Not a worker.
NoWorker == NumWorkers + 1
\* The cell ApplicationContext::new allocates.
Root == CHOOSE w \in Workers : \A v \in Workers : w <= v

\* ------------------------------------------------------- ConnectionState
ConnectionState == {"Connected", "Disconnected", "Unauthorized"}

\* An as_str that spells the names as the variants are written.
as_str_Capitalised(s) ==
    CASE s = "Connected"    -> <<"C","o","n","n","e","c","t","e","d">>
      [] s = "Disconnected" -> <<"D","i","s","c","o","n","n","e","c","t","e","d">>
      [] s = "Unauthorized" -> <<"U","n","a","u","t","h","o","r","i","z","e","d">>

\* ConnectionState::as_str, as the characters of the string it returns.
as_str(s) ==
    CASE s = "Connected"    -> <<"c","o","n","n","e","c","t","e","d">>
      [] s = "Disconnected" -> <<"d","i","s","c","o","n","n","e","c","t","e","d">>
      [] s = "Unauthorized" -> <<"u","n","a","u","t","h","o","r","i","z","e","d">>

\* Display for ConnectionState: write!(f, "{}", self.as_str()).
Display(s) == as_str(s)

\* What writeln!(&mut file, "{}", self.conn_state) hands to the file, one
\* write_all at a time: the Display output, then the newline.
Pieces(s) == <<Display(s), <<"\n">>>>

\* The first k of the pieces, one after the other.
RECURSIVE Concat(_, _)
Concat(pieces, k) ==
    IF k = 0 THEN <<>> ELSE Concat(pieces, k - 1) \o pieces[k]

\* The whole line.
Line(s) == Concat(Pieces(s), Len(Pieces(s)))

\* ------------------------------------------------------------ collaborators
\* ScanReport (net::arrow::proto): the set of hosts a scan found.
Hosts == {"h1"}
ScanReports == SUBSET Hosts
ScanReport_new == {}

\* Service descriptors (net::arrow::proto::Service): an identifier and the
\* rest of the descriptor.
ServiceIds == {"s1"}
Services == {[id |-> "s1", body |-> "a"], [id |-> "s1", body |-> "b"]}
NoService == "absent"
EmptyTable == [i \in ServiceIds |-> NoService]

RECURSIVE SeqsUpTo(_, _)
SeqsUpTo(S, n) ==
    IF n = 0 THEN {<<>>}
    ELSE LET shorter == SeqsUpTo(S, n - 1)
         IN  shorter \cup {Append(q, x) : q \in {r \in shorter : Len(r) = n - 1}, x \in S}

ServiceSeqs == SeqsUpTo(Services, MaxServices)

\* A value with the name of its Rust type.
Val(t, v) == t :> v
TypeOf(x) == CHOOSE t \in DOMAIN x : TRUE
IsA(x, t) == DOMAIN x = {t}
Payload(x) == x[TypeOf(x)]
Unit == Val("unit", "()")
NoValue == Val("none", "none")

\* ApplicationConfig as the context sees it: the identity values, the
\* logger, the service table and its version.
ConfigInit ==
    [version    |-> 0,
     uuid       |-> "uuid",
     password   |-> "password",
     mac        |-> "mac",
     diagnostic |-> FALSE,
     logger     |-> "logger",
     table      |-> EmptyTable]

\* What ApplicationConfig::get_tls_connector can produce: a connector, or
\* the error of a configuration it cannot build one from.
TlsResults == {Val("Ok", "TlsConnector"), Val("Err", "RuntimeError")}

\* What File::create and writeln! produce.
IoOk == Val("Ok", "()")
IoErr == Val("Err", "io::Error")

\* The table after the descriptors of q were applied first to last.
RECURSIVE Merge(_, _)
Merge(table, q) ==
    IF q = <<>> THEN table
    ELSE Merge([table EXCEPT ![Head(q).id] = Head(q).body], Tail(q))

Bump(cfg, table) ==
    [cfg EXCEPT !.table = table,
                !.version = IF table = cfg.table THEN @ ELSE @ + 1]

Config_update_services(cfg, q) == Bump(cfg, Merge(cfg.table, q))
Config_reset_service_table(cfg) == Bump(cfg, EmptyTable)

\* utils::logger::Severity::WARN and the message of line 160.
WARN == "WARN"
SaveFailedMessage ==
    "unable to save current connection state"
\* ------------------------------------------------------------------- state
VARIABLES
    handle,    \* handle[w]: the cell worker w's ApplicationContext points to
    mutex,     \* mutex[c]: the Mutex of cell c, its holder and its poison flag
    data,      \* data[c]: the ApplicationContextData inside the Mutex of cell c
    file,      \* the characters of the connection-state file
    log,       \* what the logger has been handed, oldest first
    pc,        \* pc[w]: where worker w is inside its current call
    op,        \* op[w]: the public method worker w called last
    arg,       \* arg[w]: its argument
    res,       \* res[w]: the Result a callee handed the Bundle operation (line 155)
    ret,       \* ret[w]: what the call in progress hands back to worker w
    copy,      \* copy[w]: the ScanReport worker w keeps from its last get_scan_report
    calls,     \* number of calls started so far
    acquired,  \* acquired[w]: lock acquisitions of worker w's current call
    released,  \* released[o]: argument of the call of o that released the lock last
    returned,  \* returned[o]: argument of the call of o that returned last
    last_save, \* the Result of the save_connection_state that ran last
    saves      \* saves[w]: save_connection_state calls of worker w's current call

vars == <<handle, mutex, data, file, log, pc, op, arg, res, ret, copy, calls,
          acquired, released, returned, last_save, saves>>

\* A constructor that starts the context as connected and scanning.
ApplicationContextData_new_Connected(config) ==
    [logger      |-> config.logger,
     config      |-> config,
     scanning    |-> TRUE,
     scan_report |-> ScanReport_new,
     conn_state  |-> "Connected"]

\* ------------------------------------------------- ApplicationContextData
ApplicationContextData_new(config) ==
    [logger      |-> config.logger,
     config      |-> config,
     scanning    |-> FALSE,
     scan_report |-> ScanReport_new,
     conn_state  |-> "Disconnected"]

\* A get_config_version that reports a version the configuration has not
\* reached.
get_config_version_Ahead(d) == d.config.version + 1

get_config_version(d)    == d.config.version
get_arrow_uuid(d)        == d.config.uuid
get_arrow_password(d)    == d.config.password
get_arrow_mac_address(d) == d.config.mac
get_diagnostic_mode(d)   == d.config.diagnostic
get_logger(d)            == d.logger
\* A get_tls_connector that swallows the error and hands a connector back.
get_tls_connector_Swallow(produced) == Val("Ok", "TlsConnector")

\* The Result of self.config.get_tls_connector() is the method's value.
get_tls_connector(produced) == produced
get_service_table(d)     == d.config.table
is_scanning(d)           == d.scanning

\* A get_scan_report that hands out the stored report itself.
ReportClone_Alias(r) == [hosts |-> r, owned |-> FALSE]

\* ScanReport::clone: a report of the caller's own, with the same content.
ReportClone(r) == [hosts |-> r, owned |-> TRUE]
get_scan_report(d) == ReportClone(d.scan_report)

\* A set_scanning that does not store its argument.
set_scanning_Dropped(d, scanning) == d

set_scanning(d, scanning)     == [d EXCEPT !.scanning = scanning]
update_scan_report(d, report) == [d EXCEPT !.scan_report = report]
reset_service_table(d) ==
    [d EXCEPT !.config = Config_reset_service_table(@)]
\* An update_services that hands the descriptors over last to first.
update_services_Reversed(d, services) ==
    [d EXCEPT !.config = Config_update_services(@,
        [k \in 1..Len(services) |-> services[Len(services) + 1 - k]])]

update_services(d, services) ==
    [d EXCEPT !.config = Config_update_services(@, services)]

\* A transition that also stops the scan.
AssignConnState_StopsScan(d, state) ==
    [d EXCEPT !.conn_state = state, !.scanning = FALSE]

\* Line 153 of set_connection_state.
AssignConnState(d, state) == [d EXCEPT !.conn_state = state]

\* What the connection-state file holds before the context is constructed:
\* whatever an earlier run or another program left at the path.
OldFile == <<"o", "l", "d", "\n">>

\* A file opened without truncation, for appending.
FileCreate_NoTruncate(content) == content

\* File::create: the file comes back empty, opened for writing at offset 0.
FileCreate(content) == <<>>

\* What the file holds once the first k of the pieces were written at its
\* end. Each write_all reaches the file whole or not at all.
FileWrite(content, pieces, k) == content \o Concat(pieces, k)

\* utils::result_or_log: an Err is logged with the severity and message,
\* an Ok is not.
result_or_log(logged, severity, message, r) ==
    IF IsA(r, "Err") THEN Append(logged, <<severity, message>>) ELSE logged

\* A report that logs whatever the result is.
ReportSave_Always(logged, r) == Append(logged, <<WARN, SaveFailedMessage>>)

\* set_connection_state, lines 157-161: the result of the save goes to
\* result_or_log with the logger, the severity and the message.
ReportSave(logged, r) == result_or_log(logged, WARN, SaveFailedMessage, r)

\* ------------------------------------------------------ the public methods
ReadOps == {"get_config_version", "get_arrow_uuid", "get_arrow_password",
            "get_arrow_mac_address", "get_diagnostic_mode", "get_logger",
            "get_tls_connector", "is_scanning", "get_scan_report",
            "get_service_table"}
WriteOps == {"set_scanning", "update_scan_report", "reset_service_table",
             "set_connection_state", "update_services"}
Ops == ReadOps \cup WriteOps
TrackedOps == {"set_scanning", "update_scan_report", "set_connection_state"}
\* The argument of a call, and the absence of any such call so far.
Never == <<>>
ArgOf(a) == <<a>>

NoArg == NoValue
ArgsOf(o) ==
    CASE o = "set_scanning"         -> {Val("bool", b) : b \in BOOLEAN}
      [] o = "update_scan_report"   -> {Val("ScanReport", r) : r \in ScanReports}
      [] o = "set_connection_state" -> {Val("ConnectionState", c) : c \in ConnectionState}
      [] o = "update_services"      -> {Val("services", q) : q \in ServiceSeqs}
      [] OTHER                      -> {NoArg}

\* A lock that does not exclude: lock returns at once.
MutexFree_NoExclusion(m) == TRUE

\* Mutex::lock returns once no thread holds the mutex.
MutexFree(m) == m.holder = NoWorker

\* A method that, still holding the guard, calls a public method of the
\* same handle: it asks for the lock again.
AfterBundleOp_Relock == "lock"

\* Where a method goes when its Bundle operation has returned: the guard is
\* dropped, nothing else is called.
AfterBundleOp == "unlock"

\* A clone that copies the context into a cell of its own.
ArcClone_DeepCopy(cell, fresh) == fresh

\* #[derive(Clone)] on ApplicationContext clones the Arc: the new handle
\* points to the cell of the handle it was cloned from.
ArcClone(cell, fresh) == cell

\* ApplicationContext::new has built the context in cell Root, and every
\* worker thread was started with a clone of that handle.
Init ==
    /\ handle = [w \in Workers |-> ArcClone(Root, w)]
    /\ mutex = [c \in Cells |-> [holder |-> NoWorker, poisoned |-> FALSE]]
    /\ data = [c \in Cells |-> ApplicationContextData_new(ConfigInit)]
    /\ file = OldFile
    /\ log = <<>>
    /\ pc = [w \in Workers |-> "idle"]
    /\ op = [w \in Workers |-> "none"]
    /\ arg = [w \in Workers |-> NoArg]
    /\ res = [w \in Workers |-> NoValue]
    /\ ret = [w \in Workers |-> NoValue]
    /\ copy = [w \in Workers |-> NoValue]
    /\ calls = 0
    /\ acquired = [w \in Workers |-> 0]
    /\ released = [o \in TrackedOps |-> Never]
    /\ returned = [o \in TrackedOps |-> Never]
    /\ last_save = NoValue
    /\ saves = [w \in Workers |-> 0]

\* An unwrap that takes the guard out of the PoisonError and goes on.
LockUnwrapPanics_Recover(m) == FALSE

\* lock() hands back Err(PoisonError) when a holder panicked; unwrap()
\* panics on it.
LockUnwrapPanics(m) == m.poisoned

\* Worker w calls a public method. Every method starts with
\* self.data.lock(), so which method it is, and with what argument, shows
\* only once the lock is held: op[w] and arg[w] are set there.
Call(w) ==
    /\ pc[w] = "idle"
    /\ calls < MaxCalls
    /\ calls' = calls + 1
    /\ pc' = [pc EXCEPT ![w] = "lock"]
    /\ UNCHANGED <<handle, last_save, saves, mutex, data, file, log, op, arg, res, ret, copy,
                   acquired, released, returned>>

\* self.data.lock().unwrap() of worker w's call of method o with argument
\* a: wait for the mutex; a poisoned mutex makes unwrap panic, and the
\* guard inside the error is dropped.
Lock(w, o, a) ==
    /\ pc[w] = "lock"
    /\ MutexFree(mutex[handle[w]])
    /\ IF LockUnwrapPanics(mutex[handle[w]])
       THEN /\ pc' = [pc EXCEPT ![w] = "panicked"]
            /\ UNCHANGED <<mutex, acquired, op, arg>>
       ELSE /\ pc' = [pc EXCEPT ![w] = "cs"]
            /\ mutex' = [mutex EXCEPT ![handle[w]].holder = w]
            /\ acquired' = [acquired EXCEPT ![w] = @ + 1]
            /\ op' = [op EXCEPT ![w] = o]
            /\ arg' = [arg EXCEPT ![w] = a]
    /\ UNCHANGED <<handle, last_save, saves, data, file, log, res, ret, copy, calls,
                   released, returned>>

\* Worker w, holding the lock, is about to run the Bundle operation of o.
Holding(w, o) == pc[w] = "cs" /\ op[w] = o

\* The Bundle operation leaves d in the cell and hands r back. It has taken
\* the argument by value; arg[w] stays on record for the tracked methods
\* and for update_services.
Finish(w, d, r) ==
    /\ data' = [data EXCEPT ![handle[w]] = d]
    /\ ret' = [ret EXCEPT ![w] = r]
    /\ pc' = [pc EXCEPT ![w] = AfterBundleOp]
    /\ arg' = [arg EXCEPT ![w] = IF op[w] \in TrackedOps \cup {"update_services"}
                                  THEN @ ELSE NoArg]
    /\ UNCHANGED <<handle, last_save, saves, mutex, file, log, op, res, copy, calls,
                   acquired, released, returned>>

\* The data of the cell worker w's handle points to.
Mine(w) == data[handle[w]]

Do_get_config_version(w) ==
    /\ Holding(w, "get_config_version")
    /\ Finish(w, Mine(w), Val("usize", get_config_version(Mine(w))))

Do_get_arrow_uuid(w) ==
    /\ Holding(w, "get_arrow_uuid")
    /\ Finish(w, Mine(w), Val("Uuid", get_arrow_uuid(Mine(w))))

Do_get_arrow_password(w) ==
    /\ Holding(w, "get_arrow_password")
    /\ Finish(w, Mine(w), Val("Uuid", get_arrow_password(Mine(w))))

Do_get_arrow_mac_address(w) ==
    /\ Holding(w, "get_arrow_mac_address")
    /\ Finish(w, Mine(w), Val("MacAddr", get_arrow_mac_address(Mine(w))))

Do_get_diagnostic_mode(w) ==
    /\ Holding(w, "get_diagnostic_mode")
    /\ Finish(w, Mine(w), Val("bool", get_diagnostic_mode(Mine(w))))

Do_get_logger(w) ==
    /\ Holding(w, "get_logger")
    /\ Finish(w, Mine(w), Val("BoxedLogger", get_logger(Mine(w))))

\* The configuration produces its Result, and the method hands it on.
Do_get_tls_connector(w) ==
    /\ Holding(w, "get_tls_connector")
    /\ \E produced \in TlsResults :
          /\ res' = [res EXCEPT ![w] = produced]
          /\ ret' = [ret EXCEPT ![w] = get_tls_connector(produced)]
    /\ pc' = [pc EXCEPT ![w] = AfterBundleOp]
    /\ UNCHANGED <<handle, last_save, saves, mutex, data, file, log, op, arg, copy, calls,
                   acquired, released, returned>>

\* A set_scanning that also saves the connection state to the file.
Do_set_scanning_Saves(w) ==
    /\ Holding(w, "set_scanning")
    /\ data' = [data EXCEPT ![handle[w]] = set_scanning(@, Payload(arg[w]))]
    /\ file' = Line(Mine(w).conn_state)
    /\ ret' = [ret EXCEPT ![w] = Unit]
    /\ pc' = [pc EXCEPT ![w] = AfterBundleOp]
    /\ UNCHANGED <<handle, last_save, saves, mutex, log, op, arg, res, copy, calls,
                   acquired, released, returned>>

Do_set_scanning(w) ==
    /\ Holding(w, "set_scanning")
    /\ Finish(w, set_scanning(Mine(w), Payload(arg[w])), Unit)

Do_is_scanning(w) ==
    /\ Holding(w, "is_scanning")
    /\ Finish(w, Mine(w), Val("bool", is_scanning(Mine(w))))

Do_get_scan_report(w) ==
    /\ Holding(w, "get_scan_report")
    /\ Finish(w, Mine(w), Val("ScanReport", get_scan_report(Mine(w))))

Do_update_scan_report(w) ==
    /\ Holding(w, "update_scan_report")
    /\ Finish(w, update_scan_report(Mine(w), Payload(arg[w])), Unit)

Do_get_service_table(w) ==
    /\ Holding(w, "get_service_table")
    /\ Finish(w, Mine(w), Val("SharedServiceTableRef", get_service_table(Mine(w))))

Do_reset_service_table(w) ==
    /\ Holding(w, "reset_service_table")
    /\ Finish(w, reset_service_table(Mine(w)), Unit)

Do_update_services(w) ==
    /\ Holding(w, "update_services")
    /\ Finish(w, update_services(Mine(w), Payload(arg[w])), Unit)

\* A set_connection_state that gives the lock back after the assignment
\* and saves the state outside the critical section.
Do_set_connection_state_EarlyRelease(w) ==
    /\ Holding(w, "set_connection_state")
    /\ data' = [data EXCEPT ![handle[w]] = AssignConnState(@, Payload(arg[w]))]
    /\ mutex' = [mutex EXCEPT ![handle[w]].holder = NoWorker]
    /\ pc' = [pc EXCEPT ![w] = "create"]
    /\ UNCHANGED <<handle, last_save, saves, file, log, op, arg, res, ret, copy, calls,
                   acquired, released, returned>>

\* A set_connection_state that saves only when the state changes.
Do_set_connection_state_IfChanged(w) ==
    /\ Holding(w, "set_connection_state")
    /\ IF Payload(arg[w]) = Mine(w).conn_state
       THEN Finish(w, Mine(w), Unit)
       ELSE /\ data' = [data EXCEPT ![handle[w]] = AssignConnState(@, Payload(arg[w]))]
            /\ pc' = [pc EXCEPT ![w] = "create"]
            /\ UNCHANGED <<handle, last_save, saves, mutex, file, log, op, arg, res,
                           ret, copy, calls, acquired, released, returned>>

\* set_connection_state, line 153: the in-memory transition.
Do_set_connection_state(w) ==
    /\ Holding(w, "set_connection_state")
    /\ data' = [data EXCEPT ![handle[w]] = AssignConnState(@, Payload(arg[w]))]
    /\ pc' = [pc EXCEPT ![w] = "create"]
    /\ UNCHANGED <<handle, last_save, saves, mutex, file, log, op, arg, res, ret, copy, calls,
                   acquired, released, returned>>

\* save_connection_state, line 166: File::create succeeds and truncates, or
\* fails and leaves the file as it was; the ? returns the error.
Save_create(w) ==
    /\ pc[w] = "create"
    /\ \E ok \in BOOLEAN :
          IF ok
          THEN /\ file' = FileCreate(file)
               /\ pc' = [pc EXCEPT ![w] = "write"]
               /\ UNCHANGED res
          ELSE /\ res' = [res EXCEPT ![w] = IoErr]
               /\ pc' = [pc EXCEPT ![w] = "log"]
               /\ UNCHANGED file
    /\ saves' = [saves EXCEPT ![w] = @ + 1]
    /\ UNCHANGED <<handle, last_save, mutex, data, log, op, arg, ret, copy, calls,
                   acquired, released, returned>>

\* save_connection_state, line 168: writeln! writes every piece, or fails
\* after the pieces before the failing one reached the file.
Save_writeln(w) ==
    /\ pc[w] = "write"
    /\ LET pieces == Pieces(Mine(w).conn_state)
       IN  \E k \in 0..Len(pieces) :
              /\ file' = FileWrite(file, pieces, k)
              /\ res' = [res EXCEPT ![w] = IF k = Len(pieces) THEN IoOk ELSE IoErr]
    /\ pc' = [pc EXCEPT ![w] = "log"]
    /\ UNCHANGED <<handle, last_save, saves, mutex, data, log, op, arg, ret, copy, calls,
                   acquired, released, returned>>

\* set_connection_state, lines 157-161: the result is logged or dropped, and
\* the method returns ().
Save_result_or_log(w) ==
    /\ pc[w] = "log"
    /\ log' = ReportSave(log, res[w])
    /\ ret' = [ret EXCEPT ![w] = Unit]
    /\ pc' = [pc EXCEPT ![w] = AfterBundleOp]
    /\ last_save' = res[w]
    /\ UNCHANGED <<handle, saves, mutex, data, file, op, arg, res, copy, calls,
                   acquired, released, returned>>

\* The MutexGuard temporary is dropped at the end of the method's expression.
Unlock(w) ==
    /\ pc[w] = "unlock"
    /\ mutex' = [mutex EXCEPT ![handle[w]].holder = NoWorker]
    /\ pc' = [pc EXCEPT ![w] = "return"]
    /\ released' = IF op[w] \in TrackedOps
                   THEN [released EXCEPT ![op[w]] = ArgOf(Payload(arg[w]))] ELSE released
    /\ UNCHANGED <<handle, last_save, saves, data, file, log, op, arg, res, ret, copy, calls,
                   acquired, returned>>

\* The method returns to its caller, which keeps a ScanReport it was handed.
Return(w) ==
    /\ pc[w] = "return"
    /\ pc' = [pc EXCEPT ![w] = "idle"]
    /\ copy' = IF IsA(ret[w], "ScanReport")
               THEN [copy EXCEPT ![w] = ret[w]] ELSE copy
    /\ op' = [op EXCEPT ![w] = "none"]
    /\ arg' = [arg EXCEPT ![w] = NoArg]
    /\ res' = [res EXCEPT ![w] = NoValue]
    /\ ret' = [ret EXCEPT ![w] = NoValue]
    /\ returned' = IF op[w] \in TrackedOps
                   THEN [returned EXCEPT ![op[w]] = ArgOf(Payload(arg[w]))] ELSE returned
    /\ acquired' = [acquired EXCEPT ![w] = 0]
    /\ saves' = [saves EXCEPT ![w] = 0]
    /\ UNCHANGED <<handle, last_save, mutex, data, file, log, calls, released>>

\* The caller changes the ScanReport that get_scan_report handed it. A
\* report of the caller's own is all that changes.
MutateCopy(w) ==
    /\ IsA(copy[w], "ScanReport")
    /\ \E r \in ScanReports \ {Payload(copy[w]).hosts} :
          /\ copy' = [copy EXCEPT ![w] = Val("ScanReport", [Payload(@) EXCEPT !.hosts = r])]
          /\ data' = IF Payload(copy[w]).owned THEN data
                     ELSE [data EXCEPT ![handle[w]].scan_report = r]
    /\ UNCHANGED <<handle, last_save, saves, mutex, file, log, pc, op, arg, res, ret, calls,
                   acquired, released, returned>>

\* The thread of worker w panics inside its Bundle operation, in code of a
\* collaborator (configuration, logger, scan report). Unwinding drops the
\* guard, which poisons the mutex; the thread is gone.
Panic(w) ==
    /\ pc[w] \in {"cs", "create", "write", "log"}
    /\ mutex[handle[w]].holder = w
    /\ mutex' = [mutex EXCEPT ![handle[w]] = [holder |-> NoWorker, poisoned |-> TRUE]]
    /\ pc' = [pc EXCEPT ![w] = "panicked"]
    /\ op' = [op EXCEPT ![w] = "none"]
    /\ arg' = [arg EXCEPT ![w] = NoArg]
    /\ res' = [res EXCEPT ![w] = NoValue]
    /\ ret' = [ret EXCEPT ![w] = NoValue]
    /\ UNCHANGED <<handle, last_save, saves, data, file, log, copy, calls, acquired, released, returned>>

Step(w) ==
    \/ \E o \in Ops : \E a \in ArgsOf(o) : Lock(w, o, a)
    \/ Do_get_config_version(w)
    \/ Do_get_arrow_uuid(w)
    \/ Do_get_arrow_password(w)
    \/ Do_get_arrow_mac_address(w)
    \/ Do_get_diagnostic_mode(w)
    \/ Do_get_logger(w)
    \/ Do_get_tls_connector(w)
    \/ Do_set_scanning(w)
    \/ Do_is_scanning(w)
    \/ Do_get_scan_report(w)
    \/ Do_update_scan_report(w)
    \/ Do_get_service_table(w)
    \/ Do_reset_service_table(w)
    \/ Do_update_services(w)
    \/ Do_set_connection_state(w)
    \/ Save_create(w)
    \/ Save_writeln(w)
    \/ Save_result_or_log(w)
    \/ Unlock(w)
    \/ Return(w)

Next ==
    \/ \E w \in Workers : Call(w)
    \/ \E w \in Workers : Step(w)
    \/ \E w \in Workers : MutateCopy(w)

Spec == Init /\ [][Next]_vars

\* Every thread that can take a step of its call eventually takes it.
LiveSpec == Spec /\ \A w \in Workers : WF_vars(Step(w))

\* The same program with threads that may panic while they hold the lock.
NextWithPanics ==
    \/ Next
    \/ \E w \in Workers : Panic(w)

PanicSpec == Init /\ [][NextWithPanics]_vars
\* ------------------------------------------------------------------ claims
\* The ApplicationContextData of the context ApplicationContext::new built.
Ctx == data[Root]

SCS == "set_connection_state"

\* Worker w holds the lock: it is between lock() and the drop of the guard.
HoldsLock(w) == pc[w] \in {"cs", "create", "write", "log", "unlock"}

\* Every call has returned.
Quiet == \A w \in Workers : pc[w] = "idle"

\* The argument h records, or none when it records no call.
LastOr(h, none) == IF h = Never THEN none ELSE h[1]

\* C1 as stated: once every call has returned, the connection state is the
\* argument of the set_connection_state call that returned last and, no
\* write having failed, the file holds that value's line.
C1_LastReturnedWins ==
    (Quiet /\ returned[SCS] # Never) =>
        /\ Ctx.conn_state = returned[SCS][1]
        /\ (log = <<>> => file = Line(returned[SCS][1]))

\* C1 as amended: whenever no set_connection_state call holds the lock (so
\* also once every call has returned), the connection state is the argument
\* of the set_connection_state call that released the lock last, which need
\* not be the call that returned last; and, no persistence attempt having
\* failed, the file holds that value's line.
C1_LastReleasedWins ==
    ((\A w \in Workers : op[w] = SCS => ~HoldsLock(w)) /\ released[SCS] # Never) =>
        /\ Ctx.conn_state = released[SCS][1]
        /\ (log = <<>> => file = Line(released[SCS][1]))

\* Two concurrent setters have both returned, in the order opposite to the
\* one in which they held the lock, and every write succeeded.
C1_Witness ==
    /\ Quiet
    /\ released[SCS] # Never
    /\ returned[SCS] # Never
    /\ released[SCS] # returned[SCS]
    /\ log = <<>>
    /\ Ctx.conn_state = released[SCS][1]
    /\ file = Line(released[SCS][1])
\* C2: when the persistence step of set_connection_state(s) fails, the
\* connection state is s as long as the call holds the lock and nothing but
\* another set_connection_state ever changes it; the call hands () back, no
\* error; and the log grows by exactly one WARN entry with the fixed message
\* when a failed attempt is reported, and by nothing at any other step.
C2_FailedSaveIsLoggedOnce ==
    /\ [](\A w \in Workers : op[w] = SCS =>
            /\ pc[w] \in {"create", "write", "log", "unlock"} =>
                   data[handle[w]].conn_state = Payload(arg[w])
            /\ pc[w] \in {"unlock", "return"} => ret[w] = Unit)
    /\ [][/\ \A w \in Workers : (pc[w] = "log" /\ pc'[w] # "log") =>
                log' = IF res[w] = IoErr
                       THEN Append(log, <<"WARN", "unable to save current connection state">>)
                       ELSE log
          /\ (\A w \in Workers : pc[w] = "log" => pc'[w] = "log") => log' = log
          /\ \A c \in Cells : data'[c].conn_state # data[c].conn_state =>
                \E w \in Workers : /\ handle[w] = c
                                   /\ Holding(w, SCS)
                                   /\ pc'[w] = "create"
                                   /\ data'[c].conn_state = Payload(arg[w])]_vars

\* A set_connection_state(Unauthorized) whose save failed is about to drop
\* the guard: the state is Unauthorized, one warning is in the log.
C2_Witness ==
    \E w \in Workers :
        /\ op[w] = SCS /\ pc[w] = "unlock" /\ arg[w] = Val("ConnectionState", "Unauthorized")
        /\ res[w] = IoErr
        /\ Ctx.conn_state = "Unauthorized"
        /\ ret[w] = Unit
        /\ log = <<<<"WARN", "unable to save current connection state">>>>

\* What a read method of worker w returns from Bundle d.
ReadOf(o, d) ==
    CASE o = "is_scanning"        -> Val("bool", is_scanning(d))
      [] o = "get_scan_report"    -> Val("ScanReport", get_scan_report(d))
      [] o = "get_service_table"  -> Val("SharedServiceTableRef", get_service_table(d))
      [] o = "get_config_version" -> Val("usize", get_config_version(d))

\* C3: every handle points to the same cell; the Bundle any handle reaches
\* holds, whenever its lock is free, the arguments of the mutating calls
\* that released the lock last, whichever handle they came through; and a
\* read through one handle returns what the Bundle of every other handle
\* holds.
C3_SharedState ==
    \A v \in Workers :
        /\ \A w \in Workers : handle[v] = handle[w]
        /\ mutex[handle[v]].holder = NoWorker =>
              /\ data[handle[v]].scanning = LastOr(released["set_scanning"], FALSE)
              /\ data[handle[v]].scan_report =
                     LastOr(released["update_scan_report"], ScanReport_new)
              /\ data[handle[v]].conn_state = LastOr(released[SCS], "Disconnected")
        /\ \A w \in Workers :
              (/\ pc[w] = "unlock"
               /\ op[w] \in {"is_scanning", "get_scan_report", "get_service_table",
                             "get_config_version"})
              => ret[w] = ReadOf(op[w], data[handle[v]])

\* A clone's set_scanning(true) has run and released the lock, and the read
\* through the original handle has just returned true from the Bundle.
C3_Witness ==
    \E v \in Workers \ {Root} :
        /\ op[v] = "set_scanning" /\ arg[v] = Val("bool", TRUE) /\ pc[v] = "return"
        /\ op[Root] = "is_scanning" /\ pc[Root] = "unlock"
        /\ ret[Root] = Val("bool", TRUE)

\* C4: two workers never hold the lock of one cell together; every worker
\* inside a Bundle operation is the holder of the mutex; and a step that
\* changes a Bundle, or gives a call its value, is a step of a worker that
\* holds the lock before and after it.
C4_MutualExclusion ==
    /\ [](/\ \A v, w \in Workers :
               (HoldsLock(v) /\ HoldsLock(w) /\ handle[v] = handle[w]) => v = w
          /\ \A w \in Workers : HoldsLock(w) => mutex[handle[w]].holder = w)
    /\ [][/\ \A c \in Cells : data'[c] # data[c] =>
                \E w \in Workers : /\ handle[w] = c
                                   /\ mutex[c].holder = w /\ mutex'[c].holder = w
                                   /\ HoldsLock(w) /\ HoldsLock(w)'
          /\ \A w \in Workers : (ret'[w] # ret[w] /\ ret'[w] # NoValue) =>
                /\ mutex[handle[w]].holder = w /\ mutex'[handle[w]].holder = w
                /\ HoldsLock(w) /\ HoldsLock(w)']_vars

\* A pure read is inside its Bundle operation while another worker waits
\* for the lock.
C4_Witness ==
    \E v, w \in Workers :
        /\ pc[v] = "cs" /\ op[v] = "get_scan_report"
        /\ mutex[handle[v]].holder = v
        /\ pc[w] = "lock" /\ handle[w] = handle[v]
\* C5: a call acquires the lock once (never while it holds it), runs its
\* one Bundle operation, drops the guard and returns, in that order; and
\* under fair scheduling every call that was started returns.
C5_EveryCallReturns ==
    /\ [](\A w \in Workers :
            /\ (HoldsLock(w) \/ pc[w] = "return") => acquired[w] = 1
            /\ pc[w] = "lock" => (acquired[w] = 0 /\ mutex[handle[w]].holder # w)
            /\ pc[w] = "return" => ret[w] # NoValue)
    /\ [][\A w \in Workers :
            /\ pc[w] = "unlock" => pc'[w] \in {"unlock", "return"}
            /\ pc[w] = "return" => pc'[w] \in {"return", "idle"}
            /\ acquired'[w] # acquired[w] =>
                   \/ (pc[w] = "lock" /\ pc'[w] = "cs" /\ acquired'[w] = 1)
                   \/ (pc[w] = "return" /\ pc'[w] = "idle")]_vars
    /\ \A w \in Workers : (pc[w] # "idle") ~> (pc[w] = "idle")

\* Both workers have called; one holds the lock inside set_connection_state
\* and the other waits for it.
C5_Witness ==
    \E v, w \in Workers :
        /\ pc[v] = "write" /\ op[v] = SCS /\ acquired[v] = 1
        /\ pc[w] = "lock" /\ acquired[w] = 0
        /\ mutex[handle[w]].holder = v
\* The strings the specification gives for the three states.
SpecString(s) ==
    CASE s = "Connected"    -> <<"c","o","n","n","e","c","t","e","d">>
      [] s = "Disconnected" -> <<"d","i","s","c","o","n","n","e","c","t","e","d">>
      [] s = "Unauthorized" -> <<"u","n","a","u","t","h","o","r","i","z","e","d">>

\* C6: when the save of set_connection_state(s) has succeeded, the file
\* holds the lowercase string of s, one newline, and nothing else.
C6_FileIsTheLine ==
    \A w \in Workers :
        (op[w] = SCS /\ pc[w] \in {"log", "unlock"} /\ res[w] = IoOk) =>
            file = SpecString(Payload(arg[w])) \o <<"\n">>

\* After a successful set_connection_state(Disconnected), a successful
\* set_connection_state(Connected) has replaced the longer line by the
\* shorter one.
C6_Witness ==
    \E w \in Workers :
        /\ op[w] = SCS /\ pc[w] = "unlock" /\ res[w] = IoOk
        /\ arg[w] = Val("ConnectionState", "Connected")
        /\ released[SCS] = <<"Disconnected">>
        /\ log = <<>>
        /\ file = <<"c","o","n","n","e","c","t","e","d","\n">>

\* The values method o can hand back from Bundle d.
Returns(o, d) ==
    CASE o = "get_config_version"    -> {Val("usize", get_config_version(d))}
      [] o = "get_arrow_uuid"        -> {Val("Uuid", get_arrow_uuid(d))}
      [] o = "get_arrow_password"    -> {Val("Uuid", get_arrow_password(d))}
      [] o = "get_arrow_mac_address" -> {Val("MacAddr", get_arrow_mac_address(d))}
      [] o = "get_diagnostic_mode"   -> {Val("bool", get_diagnostic_mode(d))}
      [] o = "get_logger"            -> {Val("BoxedLogger", get_logger(d))}
      [] o = "get_tls_connector"     -> {get_tls_connector(r) : r \in TlsResults}
      [] o = "is_scanning"           -> {Val("bool", is_scanning(d))}
      [] o = "get_scan_report"       -> {Val("ScanReport", get_scan_report(d))}
      [] o = "get_service_table"     -> {Val("SharedServiceTableRef", get_service_table(d))}
      [] OTHER                       -> {Unit}

\* C7 as stated: once set_connection_state(Unauthorized) has run, reading
\* the connection state back through the context yields Unauthorized: some
\* method of the context hands the connection state back.
C7_ReadBackThroughContext ==
    (released[SCS] = <<"Unauthorized">> /\ mutex[Root].holder = NoWorker) =>
        \E o \in Ops : Val("ConnectionState", "Unauthorized") \in Returns(o, Ctx)

\* C7 as amended: once set_connection_state(s) has made its transition the
\* stored connection state is s, and its textual form is the string the
\* specification gives: "unauthorized", "connected", "disconnected", pairwise
\* distinct. No method of the context hands the connection state back: every
\* value a call returns is one of Returns, none of them a ConnectionState.
C7_StoredStateAndText ==
    /\ \A w \in Workers :
          (op[w] = SCS /\ pc[w] \in {"create", "write", "log", "unlock"}) =>
              /\ data[handle[w]].conn_state = Payload(arg[w])
              /\ Display(data[handle[w]].conn_state) = SpecString(Payload(arg[w]))
    /\ \A w \in Workers :
          pc[w] = "unlock" =>
              /\ ret[w] \in Returns(op[w], data[handle[w]])
              /\ ~IsA(ret[w], "ConnectionState")
    /\ \A a, b \in ConnectionState :
          /\ Display(a) = SpecString(a)
          /\ a # b => Display(a) # Display(b)

\* set_connection_state(Unauthorized) has stored the state and written the
\* file, which reads "unauthorized" and a newline.
C7_Witness ==
    \E w \in Workers :
        /\ op[w] = SCS /\ pc[w] = "unlock"
        /\ arg[w] = Val("ConnectionState", "Unauthorized")
        /\ Ctx.conn_state = "Unauthorized"
        /\ res[w] = IoOk
        /\ file = <<"u","n","a","u","t","h","o","r","i","z","e","d","\n">>

\* C8 as stated: is_scanning returns the argument of the set_scanning call
\* that returned to its caller last, or false if none has returned.
C8_ReturnsLastCompleted ==
    [][\A w \in Workers :
          (Holding(w, "is_scanning") /\ pc'[w] = "unlock") =>
              ret'[w] = Val("bool", LastOr(returned["set_scanning"], FALSE))]_vars

\* C8 as amended: is_scanning returns the argument of the set_scanning call
\* that ran its Bundle operation and released the lock last, whether or not
\* that call has returned to its caller yet, or false if there is none.
C8_ReturnsLastReleased ==
    \A w \in Workers :
        (op[w] = "is_scanning" /\ pc[w] = "unlock") =>
            ret[w] = Val("bool", LastOr(released["set_scanning"], FALSE))

\* set_scanning(true) has returned and the is_scanning after it hands back
\* true.
C8_Witness ==
    \E w \in Workers :
        /\ op[w] = "is_scanning" /\ pc[w] = "unlock"
        /\ returned["set_scanning"] = <<TRUE>>
        /\ released["set_scanning"] = <<TRUE>>
        /\ ret[w] = Val("bool", TRUE)

\* C9 as stated, in its last part: get_scan_report returns the argument of
\* the update_scan_report call that returned to its caller last (the new,
\* empty report when none has returned).
C9_ReturnsLastCompleted ==
    [][\A w \in Workers :
          (Holding(w, "get_scan_report") /\ pc'[w] = "unlock") =>
              Payload(ret'[w]).hosts =
                  LastOr(returned["update_scan_report"], ScanReport_new)]_vars

\* C9 as amended: get_scan_report hands back a report of the caller's own
\* whose content is the argument of the update_scan_report call that
\* released the lock last (the new report if there is none); and whatever
\* callers do to their copies, the stored report stays that argument.
C9_CopyIsIndependent ==
    /\ \A w \in Workers :
          (op[w] = "get_scan_report" /\ pc[w] = "unlock") =>
              ret[w] = Val("ScanReport",
                           [hosts |-> LastOr(released["update_scan_report"], ScanReport_new),
                            owned |-> TRUE])
    /\ mutex[Root].holder = NoWorker =>
          Ctx.scan_report = LastOr(released["update_scan_report"], ScanReport_new)

\* Worker w changed the report it had fetched; the stored report is as it
\* was, and the next get_scan_report hands back the stored one.
C9_Witness ==
    \E v, w \in Workers :
        /\ pc[w] = "idle" /\ IsA(copy[w], "ScanReport")
        /\ Payload(copy[w]).hosts # Ctx.scan_report
        /\ op[v] = "get_scan_report" /\ pc[v] = "unlock"
        /\ Payload(ret[v]).hosts = Ctx.scan_report
        /\ released["update_scan_report"] = Never

GTC == "get_tls_connector"

\* C10: get_tls_connector hands back the very Result the configuration
\* produced; no other method hands back an Err; and the step that runs it
\* changes no Bundle, nor the file, the log or the mutex.
C10_TlsResultUnchanged ==
    /\ [](\A w \in Workers :
            /\ (op[w] = GTC /\ pc[w] \in {"unlock", "return"}) =>
                   (res[w] \in TlsResults /\ ret[w] = res[w])
            /\ IsA(ret[w], "Err") => op[w] = GTC)
    /\ [][\A w \in Workers :
            (Holding(w, GTC) /\ pc'[w] # "cs") =>
                (data' = data /\ file' = file /\ log' = log /\ mutex' = mutex)]_vars

\* A get_tls_connector is returning the configuration's error to its caller
\* while an earlier set_connection_state's failed save was only logged.
C10_Witness ==
    \E w \in Workers :
        /\ op[w] = GTC /\ pc[w] = "return"
        /\ ret[w] = Val("Err", "RuntimeError")
        /\ Len(log) = 1
Poisoned == mutex[Root].poisoned

\* C11: a thread that panics while it holds the lock leaves the mutex
\* poisoned; from then on the mutex stays poisoned and unheld, the Bundle,
\* the file and the log never change, every call that reaches lock() panics
\* without a value and without the lock, and a panicked thread stays so.
C11_PoisonedLockAborts ==
    /\ [](Poisoned =>
            /\ mutex[Root].holder = NoWorker
            /\ \A w \in Workers : ~HoldsLock(w))
    /\ [][/\ \A w \in Workers :
                (HoldsLock(w) /\ pc'[w] = "panicked") => Poisoned'
          /\ Poisoned =>
                /\ mutex' = mutex
                /\ data' = data /\ file' = file /\ log' = log
                /\ \A w \in Workers :
                      /\ pc[w] = "lock" => pc'[w] \in {"lock", "panicked"}
                      /\ pc[w] = "panicked" => pc'[w] = "panicked"
                      /\ (pc[w] = "lock" /\ pc'[w] = "panicked") =>
                             (ret'[w] = NoValue /\ acquired'[w] = 0)]_vars

\* One thread panicked inside set_connection_state, after the assignment
\* and before the file was created; the call of the other thread then
\* panicked at lock().
C11_Witness ==
    /\ Poisoned
    /\ \A w \in Workers : pc[w] = "panicked"
    /\ Ctx.conn_state = "Connected"
    /\ file = OldFile
    /\ \E w \in Workers : acquired[w] = 0
\* What the registry holds for identifier i once the descriptors of q were
\* applied in order to a registry that held old for it.
LastBody(q, i, old) ==
    LET at == {k \in 1..Len(q) : q[k].id = i}
    IN  IF at = {} THEN old
        ELSE q[CHOOSE k \in at : \A j \in at : j <= k].body

\* C12: update_services leaves, for every identifier, the body of the last
\* descriptor of the sequence that carries it (what was there if none
\* does); reset_service_table leaves the registry empty; no other method
\* changes the registry, and get_service_table returns it as it is: so a
\* read after a reset, with no update_services in between, is empty.
C12_MergeAndReset ==
    /\ [](\A w \in Workers :
            /\ (op[w] = "get_service_table" /\ pc[w] = "unlock") =>
                   ret[w] = Val("SharedServiceTableRef", Ctx.config.table)
            /\ (op[w] = "reset_service_table" /\ pc[w] = "unlock") =>
                   \A i \in ServiceIds : Ctx.config.table[i] = NoService)
    /\ [][/\ \A w \in Workers :
                (Holding(w, "update_services") /\ pc'[w] = "unlock") =>
                    \A i \in ServiceIds :
                        Ctx'.config.table[i] =
                            LastBody(Payload(arg[w]), i, Ctx.config.table[i])
          /\ Ctx'.config.table # Ctx.config.table =>
                \E w \in Workers :
                    \/ Holding(w, "update_services")
                    \/ Holding(w, "reset_service_table")]_vars

\* update_services was given two descriptors with the same identifier; the
\* registry holds the body of the second, and the version moved once.
C12_Witness ==
    \E w \in Workers :
        /\ op[w] = "update_services" /\ pc[w] = "unlock"
        /\ arg[w] = Val("services", <<[id |-> "s1", body |-> "a"],
                                      [id |-> "s1", body |-> "b"]>>)
        /\ Ctx.config.table["s1"] = "b"
        /\ Ctx.config.version = 1
GCV == "get_config_version"

\* C13: the configuration version moves one assignment at a time, and
\* get_config_version, between the start and the end of its call, reads
\* the version the configuration holds at that moment and leaves it alone:
\* what it returns is a value the version held during the call, and never
\* one beyond the versions assigned so far.
C13_VersionReadIsCurrent ==
    /\ [](\A w \in Workers :
            (op[w] = GCV /\ pc[w] \in {"unlock", "return"}) =>
                /\ IsA(ret[w], "usize")
                /\ Payload(ret[w]) \in 0..Ctx.config.version)
    /\ [][/\ Ctx'.config.version \in {Ctx.config.version, Ctx.config.version + 1}
          /\ \A w \in Workers :
                (Holding(w, GCV) /\ pc'[w] = "unlock") =>
                    /\ ret'[w] = Val("usize", Ctx.config.version)
                    /\ Ctx'.config.version = Ctx.config.version]_vars

\* A reader was handed version 1 while the update_services that moved the
\* version from 0 to 1 has released the lock and not yet returned.
C13_Witness ==
    \E v, w \in Workers :
        /\ op[w] = GCV /\ pc[w] = "unlock"
        /\ ret[w] = Val("usize", 1)
        /\ op[v] = "update_services" /\ pc[v] = "return"
        /\ Ctx.config.version = 1
\* C14: until a set_connection_state has made its assignment the connection
\* state is Disconnected, until a set_scanning has made its assignment the
\* scanning flag is false, and the connection state is always one of
\* Connected, Disconnected, Unauthorized.
C14_InitialAndClosed ==
    /\ (released[SCS] = Never /\ \A w \in Workers : ~(op[w] = SCS /\ HoldsLock(w))) =>
           Ctx.conn_state = "Disconnected"
    /\ (released["set_scanning"] = Never
        /\ \A w \in Workers : ~(op[w] = "set_scanning" /\ HoldsLock(w))) =>
           Ctx.scanning = FALSE
    /\ Ctx.conn_state \in {"Connected", "Disconnected", "Unauthorized"}

\* The first call on the new context holds the lock and is about to set the
\* connection state: the context is still as constructed.
C14_Witness ==
    \E w \in Workers :
        /\ calls = 1
        /\ Holding(w, SCS) /\ arg[w] = Val("ConnectionState", "Connected")
        /\ Ctx.conn_state = "Disconnected" /\ Ctx.scanning = FALSE
        /\ file = OldFile
\* Worker w is inside set_connection_state, past the assignment of
\* conn_state and not yet through with the save and its log.
InSave(w) == op[w] = SCS /\ pc[w] \in {"create", "write", "log"}

\* C15: from the assignment of conn_state until the file write and the log
\* of its failure are done, the setter holds the lock: no other worker
\* takes the lock, runs or finishes a Bundle operation in between, none is
\* handed a value, and the Bundle, the file and the log change only by the
\* setter's own steps. Another call in that time can only be made, and
\* wait, or return from an operation that had released the lock before.
C15_LockHeldAcrossSave ==
    /\ [](\A w \in Workers :
            InSave(w) =>
                /\ mutex[Root].holder = w
                /\ \A v \in Workers \ {w} : pc[v] \in {"idle", "lock", "return"})
    /\ [][\A w \in Workers :
            InSave(w) =>
                /\ mutex'[Root].holder = w
                /\ \A v \in Workers \ {w} :
                      /\ pc'[v] \in {"idle", "lock", "return"}
                      /\ pc'[v] = "return" => (pc[v] = "return" /\ ret'[v] = ret[v])
                /\ (Ctx' # Ctx \/ file' # file \/ log' # log) => pc'[w] # pc[w]
                /\ Ctx'.conn_state = Ctx.conn_state]_vars

\* The setter has truncated the file and is about to write; the other
\* worker has called a method and waits for the lock.
C15_Witness ==
    \E v, w \in Workers :
        /\ op[w] = SCS /\ pc[w] = "write"
        /\ arg[w] = Val("ConnectionState", "Unauthorized")
        /\ Ctx.conn_state = "Unauthorized"
        /\ file = <<>>
        /\ pc[v] = "lock"
        /\ mutex[Root].holder = w
\* The scanning flag is b and the connection state is s.
Combination(b, s) == Ctx.scanning = b /\ Ctx.conn_state = s

\* C16: set_scanning changes the scanning flag and nothing else of the
\* Bundle, nor the file or the log; update_scan_report changes the scan
\* report and nothing else; no step of set_connection_state changes the
\* scanning flag, the scan report or the configuration.
C16_FrameEffects ==
    [][\A w \in Workers :
          /\ (Holding(w, "set_scanning") /\ pc'[w] = "unlock") =>
                 /\ Ctx' = [Ctx EXCEPT !.scanning = Payload(arg[w])]
                 /\ file' = file /\ log' = log
          /\ (Holding(w, "update_scan_report") /\ pc'[w] = "unlock") =>
                 /\ Ctx' = [Ctx EXCEPT !.scan_report = Payload(arg[w])]
                 /\ file' = file /\ log' = log
          /\ (op[w] = SCS /\ pc[w] \in {"cs", "create", "write", "log"}
              /\ pc'[w] # pc[w]) =>
                 /\ Ctx'.scanning = Ctx.scanning
                 /\ Ctx'.scan_report = Ctx.scan_report
                 /\ Ctx'.config = Ctx.config]_vars

\* After set_scanning(true), set_connection_state(Unauthorized) has run:
\* the context is scanning and unauthorized.
C16_Witness ==
    \E w \in Workers :
        /\ op[w] = SCS /\ pc[w] = "unlock"
        /\ released["set_scanning"] = <<TRUE>>
        /\ Combination(TRUE, "Unauthorized")
\* C17: whenever the lock is free and the save that ran last succeeded,
\* the file holds the string of the in-memory connection state and a
\* newline: the file never stays behind memory after a successful save.
C17_FileFollowsMemory ==
    (mutex[Root].holder = NoWorker /\ last_save = IoOk) =>
        file = SpecString(Ctx.conn_state) \o <<"\n">>

\* The first set_connection_state failed to save and was logged; the
\* second one saved; every call has returned.
C17_Witness ==
    /\ \A w \in Workers : pc[w] = "idle"
    /\ mutex[Root].holder = NoWorker
    /\ last_save = IoOk
    /\ Len(log) = 1
    /\ Ctx.conn_state = "Connected"
    /\ file = <<"c","o","n","n","e","c","t","e","d","\n">>

\* What set_connection_state(s) can leave in the file: nothing, the string
\* without its newline, or the whole line.
SavedTexts(s) == {<<>>, SpecString(s), SpecString(s) \o <<"\n">>}

\* C18: the file is what it was before the context was constructed until a
\* set_connection_state gets to it; it changes only in the File::create and
\* writeln! steps of a set_connection_state call, to what that call's
\* argument can leave; so it always holds the old content, nothing, or the
\* string of a state some call was given, with or without its newline.
C18_FileWrittenOnlyBySetter ==
    /\ [](/\ file \in {OldFile} \cup UNION {SavedTexts(s) : s \in ConnectionState}
          /\ (released[SCS] = Never
              /\ \A w \in Workers : ~(op[w] = SCS /\ HoldsLock(w))) => file = OldFile)
    /\ [][file' # file =>
            \E w \in Workers :
                /\ op[w] = SCS /\ pc[w] \in {"create", "write"} /\ pc'[w] # pc[w]
                /\ file' \in SavedTexts(Payload(arg[w]))]_vars

\* A set_connection_state(Unauthorized) truncated the file and failed to
\* write; it has returned, and the file is empty while memory says
\* Unauthorized.
C18_Witness ==
    /\ \A w \in Workers : pc[w] = "idle"
    /\ last_save = IoErr
    /\ Ctx.conn_state = "Unauthorized"
    /\ file = <<>>
    /\ Len(log) = 1

\* C19: a set_connection_state call runs save_connection_state once, after
\* its assignment, whatever its argument: a call given the state the
\* context already has goes on to the save and leaves the Bundle as it is,
\* and when its save succeeds the file holds the same line as after the
\* call before it. No other method runs save_connection_state.
C19_OneSavePerCall ==
    /\ [](\A w \in Workers :
            /\ saves[w] = IF op[w] = SCS /\ pc[w] \in {"write", "log", "unlock", "return"}
                          THEN 1 ELSE 0
            /\ (op[w] = SCS /\ pc[w] = "unlock"
                /\ released[SCS] = ArgOf(Payload(arg[w]))) =>
                   /\ Ctx.conn_state = Payload(arg[w])
                   /\ res[w] = IoOk => file = SpecString(Payload(arg[w])) \o <<"\n">>)
    /\ [][\A w \in Workers :
            (Holding(w, SCS) /\ pc'[w] # pc[w]) =>
                /\ pc'[w] = "create"
                /\ Payload(arg[w]) = Ctx.conn_state => Ctx' = Ctx]_vars

\* set_connection_state(Connected) was called twice; the second call has
\* saved again, and the file holds the line the first one wrote.
C19_Witness ==
    \E w \in Workers :
        /\ op[w] = SCS /\ pc[w] = "unlock"
        /\ arg[w] = Val("ConnectionState", "Connected")
        /\ returned[SCS] = <<"Connected">>
        /\ saves[w] = 1 /\ res[w] = IoOk
        /\ log = <<>>
        /\ file = <<"c","o","n","n","e","c","t","e","d","\n">>
====
